---- MODULE Spec2Model ----
(***************************************************************************)
(* Distributed FMM gravity step of flecsph (class tree_colorer in          *)
(* src/mpisph/tree_gravitation.h): frontier selection and scatter          *)
(* (mpi_exchange_cells), cell-to-cell accumulation (mpi_compute_fmm,       *)
(* tree_traversal_c2c, MAC, computeAcceleration), and gather, reduction,   *)
(* cell-to-particle descent and intra-sink direct sum (mpi_gather_cells,   *)
(* sink_traversal_c2p).                                                    *)
(*                                                                         *)
(* Reals.  Coordinates of bodies and boxes are integers; a centre of mass  *)
(* is the exact rational [n |-> sum of m*x, d |-> sum of m].  The tensor   *)
(* accumulators fc, dfcdr, dfcdrdr and the body accelerations are formal   *)
(* sums: bags of the terms that the code adds into them, one term per call *)
(* of computeAcceleration, naming the source whose position and mass were  *)
(* passed.  Adding two accumulators is bag union.                          *)
(***************************************************************************)
EXTENDS Integers, Sequences, FiniteSets, Bags, TLC

(* ------------------------------ bounds -------------------------------- *)
NRanks == 2
MaxBodies == 3
MaxDepth == 2
MaxBodyMass == 1
LeafCap == 2
MaxSteps == 2
MaxDiff == 1

(* ------------------------- program constants -------------------------- *)
\* template parameter D of tree_colorer<T,D>
dimension == 1
\* sizeof(mpi_cell_t): 4 points, 9 + 27 doubles and the branch id, in bytes
SizeofCell == 8 * (4 * dimension + 9 + 27) + 8

Ranks == 0..(NRanks - 1)
Axes == 1..dimension
NChildren == 2 ^ dimension
Grid == 2 ^ MaxDepth
Coords == 0..(Grid - 1)
Points == [Axes -> Coords]

\* values of the tuning parameters a driver may pass (valid and invalid ones)
MaxMassValues == {0, 2, 4}
MacAngles == {[num |-> 1, den |-> 2], [num |-> 2, den |-> 1]}

VARIABLES
    bodies,     \* the particles of the universe: sequence of [pos, mass, rank]
    ghosts,     \* whether each rank's tree also holds the other ranks' bodies as non-local
    hardened,   \* whether the build's std::vector::operator[] checks its index
    tree,       \* tree[r]: the local tree of rank r, branch id -> branch
    maxMass,    \* argument of mpi_exchange_cells
    macangle,   \* argument of mpi_compute_fmm
    pc,         \* pc[r]: where rank r is in the step: "idle", "scatter", "scattered",
                \* "computed", "gather", "done", or stopped by a failed check:
                \* "failed_empty", "failed_scatter", "failed_compute", "failed_gather"
    step,       \* step[r]: number of the gravity step rank r is in
    vcells,     \* vcells[r]: the frontier rank r selected (send buffer of the scatter)
    nrecvCOM,   \* nrecvCOM[r]: per-rank byte counts, member of tree_colorer
    noffsets,   \* noffsets[r]: per-rank byte offsets computed in mpi_exchange_cells
    recvCOM,    \* recvCOM[r]: the catalog, member of tree_colorer
    sent,       \* sent[q][r]: the message of rank q to rank r in flight in MPI_Alltoallv
    recvcells,  \* recvcells[r]: receive buffer of mpi_gather_cells, reduced in place
    acc,        \* acc[b]: acceleration of body b
    accLog,     \* accLog[b]: acceleration of body b at the end of the previous step
    touched,    \* touched[b]: Taylor updates of body b in the current step
    workers,    \* workers[r]: the iterations of the parallel for of mpi_compute_fmm on
                \* rank r while it runs, catalog slot -> [stage, sink, calls]
    accessed,   \* accessed[r]: the accesses to the catalog made by these iterations
    hcall       \* one pass of the innermost loop of the Hessian in computeAcceleration:
                \* [stage, i, j, k, diffPos, firstterm]

vars == <<bodies, ghosts, hardened, tree, maxMass, macangle, pc, step, vcells, nrecvCOM,
          noffsets, recvCOM, sent, recvcells, acc, accLog, touched, workers, accessed,
          hcall>>

(* ------------------------------ points -------------------------------- *)
\* operator== of point_t
PtEq(p, q) == \A k \in Axes : p[k] = q[k]
\* operator< and operator> of point_t: elementwise, strict
PtLess(p, q) == \A k \in Axes : p[k] < q[k]
PtGreater(p, q) == \A k \in Axes : p[k] > q[k]

\* sum of the values of a function with a finite domain
RECURSIVE SumFn(_)
SumFn(f) ==
    IF DOMAIN f = {} THEN 0
    ELSE LET x == CHOOSE y \in DOMAIN f : TRUE
         IN f[x] + SumFn([y \in DOMAIN f \ {x} |-> f[y]])

\* square of flecsi::distance between two integer points
Dist2(p, q) == SumFn([k \in Axes |-> (p[k] - q[k]) * (p[k] - q[k])])

\* a rational point [n, d] with d > 0 stands for n/d
AtPoint(p) == [n |-> p, d |-> 1]
\* (a.d*b.d)^2 times the square of the distance between two rational points
RDist2Scaled(a, b) ==
    SumFn([k \in Axes |->
        (a.n[k] * b.d - b.n[k] * a.d) * (a.n[k] * b.d - b.n[k] * a.d)])
REq(a, b) == \A k \in Axes : a.n[k] * b.d = b.n[k] * a.d

(* ------------------- the local tree (external input) ------------------- *)
\* A branch id is the path of child indices from the root; the root is <<>>.
\* The default-constructed branch id of a sink built in mpi_compute_fmm is
\* no id of any branch.
RootId == <<>>
NullId == <<0 - 1>>

\* bit of axis k in child index i: the upper half of the cell along axis k
ChildBit(i, k) == (i \div (2 ^ (k - 1))) % 2

CellSize(path) == Grid \div (2 ^ Len(path))
CellOrigin(path) ==
    [k \in Axes |->
        SumFn([j \in 1..Len(path) |-> ChildBit(path[j], k) * (Grid \div (2 ^ j))])]
InCell(path, p) ==
    \A k \in Axes : /\ CellOrigin(path)[k] <= p[k]
                    /\ p[k] < CellOrigin(path)[k] + CellSize(path)

\* bodies held by the tree of rank r: its own, and the others' as non-local
Visible(bs, gh, r) == {i \in DOMAIN bs : bs[i].rank = r \/ gh}
BodiesIn(bs, gh, r, path) == {i \in Visible(bs, gh, r) : InCell(path, bs[i].pos)}
LocalIn(bs, r, path) == {i \in DOMAIN bs : bs[i].rank = r /\ InCell(path, bs[i].pos)}

\* a cell is refined while it holds more than LeafCap bodies
LeafAt(bs, gh, r, path) ==
    Len(path) = MaxDepth \/ Cardinality(BodiesIn(bs, gh, r, path)) <= LeafCap

RECURSIVE TreePaths(_, _, _, _)
TreePaths(bs, gh, r, path) ==
    IF LeafAt(bs, gh, r, path) THEN {path}
    ELSE {path} \cup UNION {TreePaths(bs, gh, r, Append(path, i)) : i \in 0..(NChildren - 1)}

SetMin(S) == CHOOSE x \in S : \A y \in S : x <= y
SetMax(S) == CHOOSE x \in S : \A y \in S : x >= y

\* centre of mass, mass and bounding box of a branch summarise its local bodies;
\* a branch without local bodies has mass 0
MakeBranch(bs, gh, r, path) ==
    LET loc == LocalIn(bs, r, path)
        m == SumFn([i \in loc |-> bs[i].mass])
    IN [id |-> path,
        mass |-> m,
        position |-> IF loc = {} THEN AtPoint(CellOrigin(path))
                     ELSE [n |-> [k \in Axes |-> SumFn([i \in loc |-> bs[i].mass * bs[i].pos[k]])],
                           d |-> m],
        bmin |-> IF loc = {} THEN CellOrigin(path)
                 ELSE [k \in Axes |-> SetMin({bs[i].pos[k] : i \in loc})],
        bmax |-> IF loc = {} THEN CellOrigin(path)
                 ELSE [k \in Axes |-> SetMax({bs[i].pos[k] : i \in loc})],
        isLeaf |-> LeafAt(bs, gh, r, path),
        bodies |-> IF LeafAt(bs, gh, r, path) THEN BodiesIn(bs, gh, r, path) ELSE {}]

BuildTree(bs, gh, r) ==
    [path \in TreePaths(bs, gh, r, RootId) |-> MakeBranch(bs, gh, r, path)]

\* tree.root(), tree.child(b, i), tree.get(id): get yields NullId for an id
\* that is no branch of the tree
root(t) == RootId
child(t, b, i) == Append(b, i)
get(t, id) == IF id \in DOMAIN t THEN id ELSE NullId
\* body accessors: is_local on the rank whose tree holds the body
is_local(r, i) == bodies[i].rank = r

(* ---------------------- mpi_cell_t and the frontier --------------------- *)
\* mpi_cell_t(position, bmin, bmax, id): the tensor fields start at zero
mpi_cell_t(position, bmin, bmax, id) ==
    [position |-> position, fc |-> EmptyBag, dfcdr |-> EmptyBag, dfcdrdr |-> EmptyBag,
     bmax |-> bmax, bmin |-> bmin, id |-> id]

\* mpi_cell_t(): what vector::resize and the vector constructor fill in
DefaultCell == mpi_cell_t(AtPoint([k \in Axes |-> 0]), [k \in Axes |-> 0],
                          [k \in Axes |-> 0], NullId)

RECURSIVE traverse(_, _, _), traverseChildren(_, _, _, _)

\* mutant: the loop over the children starts at child 1
traverseFromOne(t, b, mm) ==
    IF t[b].mass = 0 THEN <<>>
    ELSE IF t[b].isLeaf \/ t[b].mass < mm
         THEN <<[position |-> t[b].position, fc |-> EmptyBag, dfcdr |-> EmptyBag,
                 dfcdrdr |-> EmptyBag, bmax |-> t[b].bmax, bmin |-> t[b].bmin,
                 id |-> t[b].id]>>
         ELSE traverseChildren(t, b, mm, 1)

\* mutant: a branch under the acceptance mass is emitted and opened as well
traverseEmitAndOpen(t, b, mm) ==
    LET cell == [position |-> t[b].position, fc |-> EmptyBag, dfcdr |-> EmptyBag,
                 dfcdrdr |-> EmptyBag, bmax |-> t[b].bmax, bmin |-> t[b].bmin,
                 id |-> t[b].id]
    IN IF t[b].mass = 0 THEN <<>>
       ELSE IF t[b].isLeaf THEN <<cell>>
       ELSE IF t[b].mass < mm THEN <<cell>> \o traverseChildren(t, b, mm, 0)
       ELSE traverseChildren(t, b, mm, 0)

\* mutant: branches of mass zero are not skipped
traverseNoMassTest(t, b, mm) ==
    IF t[b].isLeaf \/ t[b].mass < mm
    THEN <<[position |-> t[b].position, fc |-> EmptyBag, dfcdr |-> EmptyBag,
            dfcdrdr |-> EmptyBag, bmax |-> t[b].bmax, bmin |-> t[b].bmin,
            id |-> t[b].id]>>
    ELSE traverseChildren(t, b, mm, 0)

\* the traverse lambda of mpi_exchange_cells: the cells pushed onto vcells
\* by the call on branch b, in the order of the pushes
traverse(t, b, mm) ==
    IF t[b].mass = 0 THEN <<>>
    ELSE IF t[b].isLeaf \/ t[b].mass < mm
         THEN <<mpi_cell_t(t[b].position, t[b].bmin, t[b].bmax, t[b].id)>>
         ELSE traverseChildren(t, b, mm, 0)

\* the for loop over the children i, i+1, ... of b
traverseChildren(t, b, mm, i) ==
    IF i = NChildren THEN <<>>
    ELSE traverse(t, child(t, b, i), mm) \o traverseChildren(t, b, mm, i + 1)

(* ------------------------------ the scatter ---------------------------- *)
\* the element counts MPI_Allgather delivers: what each rank sent
AllgatherCounts == [q \in Ranks |-> Len(vcells[q])]

\* mutant: the counts are left in elements, not multiplied by the record size
ByteCountsInElements(counts) == counts

\* nrecvCOM after the loop: nrecvCOM[i] *= sizeof(mpi_cell_t)
ByteCounts(counts) == [q \in Ranks |-> counts[q] * SizeofCell]

\* noffsets after the loop: noffsets[0] = 0, noffsets[i+1] += nrecvCOM[i] + noffsets[i]
RECURSIVE OffsetAt(_, _)
OffsetAt(bytes, q) == IF q = 0 THEN 0 ELSE bytes[q - 1] + OffsetAt(bytes, q - 1)
ExchangeOffsets(bytes) == [q \in Ranks |-> OffsetAt(bytes, q)]

\* totalrecv: the sum of the element counts
RECURSIVE TotalUpTo(_, _)
TotalUpTo(counts, q) == IF q < 0 THEN 0 ELSE counts[q] + TotalUpTo(counts, q - 1)

\* MPI_Allgatherv into a buffer of total default cells: rank q's send buffer
\* send[q], bytes[q] bytes of it, lands at byte displacement displs[q]
Allgatherv(send, bytes, displs, total) ==
    [idx \in 1..total |->
        LET from == {q \in Ranks :
                        /\ displs[q] \div SizeofCell < idx
                        /\ idx <= (displs[q] + bytes[q]) \div SizeofCell
                        /\ idx - displs[q] \div SizeofCell <= Len(send[q])}
        IN IF from = {} THEN DefaultCell
           ELSE LET q == SetMax(from) IN send[q][idx - displs[q] \div SizeofCell]]

\* the loop of assertions closing mpi_exchange_cells
OwnSliceInOrder(v, cat, off) ==
    \A i \in 1..Len(v) :
        /\ i + off \div SizeofCell \in DOMAIN cat
        /\ REq(v[i].position, cat[i + off \div SizeofCell].position)

(* ------------------------- the cell-to-cell phase ---------------------- *)
\* the set of a leaf's bodies as the sequence its iterator yields
RECURSIVE SeqOf(_)
SeqOf(S) == IF S = {} THEN <<>> ELSE <<SetMin(S)>> \o SeqOf(S \ {SetMin(S)})

\* computeAcceleration on the accumulators a = [fc, dfcdr, dfcdrdr, ok, calls]:
\* the assertion dist > 0 fails when the two positions coincide (ok becomes
\* FALSE and the process has aborted); otherwise one term is added to each
\* tensor.  src names the source object whose position and mass are passed;
\* calls is the history of the calls made, in program order.
computeAcceleration(sinkPosition, sourcePosition, sourceMass, src, a) ==
    LET term == [sink |-> sinkPosition, source |-> sourcePosition,
                 mass |-> sourceMass, of |-> src]
    IN IF ~a.ok THEN a
       ELSE IF RDist2Scaled(sinkPosition, sourcePosition) = 0
            THEN [a EXCEPT !.ok = FALSE, !.calls = Append(@, term)]
            ELSE [a EXCEPT !.fc = @ (+) SetToBag({term}),
                           !.dfcdr = @ (+) SetToBag({term}),
                           !.dfcdrdr = @ (+) SetToBag({term}),
                           !.calls = Append(@, term)]

\* MAC: dmax/disttoc < macangle, compared after squaring and clearing the
\* denominators; disttoc = 0 gives inf or NaN, for which < is false
MAC(sink, source, angle) ==
    LET dmax2 == Dist2(source.bmin, source.bmax)
        scale == sink.position.d * source.position.d
        disttoc2 == RDist2Scaled(sink.position, source.position)
    IN /\ disttoc2 > 0
       /\ dmax2 * angle.den * angle.den * scale * scale < angle.num * angle.num * disttoc2

RECURSIVE tree_traversal_c2c(_, _, _, _, _, _), c2cBodies(_, _, _, _), c2cChildren(_, _, _, _, _, _, _)

\* the loop over the bodies of a source leaf held by the tree of rank r
c2cBodies(r, sink, bs, a) ==
    IF bs = <<>> THEN a
    ELSE LET bi == Head(bs)
             a1 == IF /\ is_local(r, bi)
                      /\ ~(/\ PtLess(bodies[bi].pos, sink.bmax)
                            /\ PtGreater(bodies[bi].pos, sink.bmin))
                   THEN computeAcceleration(sink.position, AtPoint(bodies[bi].pos),
                            bodies[bi].mass, [kind |-> "body", rank |-> r, id |-> <<bi>>], a)
                   ELSE a
         IN c2cBodies(r, sink, Tail(bs), a1)

\* tree_traversal_c2c of rank r on its tree t: the accumulators after the call
\* on the source branch; an equal id is only logged
tree_traversal_c2c(r, t, sink, source, angle, a) ==
    IF t[source].mass = 0 THEN a
    ELSE IF PtEq(sink.bmin, t[source].bmin) /\ PtEq(sink.bmax, t[source].bmax) THEN a
    ELSE IF PtLess(sink.bmin, t[source].bmin) /\ PtGreater(sink.bmax, t[source].bmax) THEN a
    ELSE IF MAC(sink, t[source], angle)
         THEN computeAcceleration(sink.position, t[source].position, t[source].mass,
                  [kind |-> "branch", rank |-> r, id |-> t[source].id], a)
    ELSE IF t[source].isLeaf
         THEN c2cBodies(r, sink, SeqOf(t[source].bodies), a)
         ELSE c2cChildren(r, t, sink, source, angle, a, 0)

c2cChildren(r, t, sink, source, angle, a, i) ==
    IF i = NChildren THEN a
    ELSE c2cChildren(r, t, sink, source, angle,
             tree_traversal_c2c(r, t, sink, child(t, source, i), angle, a), i + 1)

\* the branch_t sink built by one iteration of mpi_compute_fmm: position and
\* box of the cell, the id left default (setId is commented out)
SinkOf(cell) ==
    [position |-> cell.position, bmax |-> cell.bmax, bmin |-> cell.bmin, id |-> NullId]

\* one iteration of the parallel for of mpi_compute_fmm on a catalog cell
fmmIteration(r, t, cell, angle) ==
    tree_traversal_c2c(r, t, SinkOf(cell), root(t), angle,
        [fc |-> cell.fc, dfcdr |-> cell.dfcdr, dfcdrdr |-> cell.dfcdrdr, ok |-> TRUE,
         calls |-> <<>>])

\* mutant: the iteration also stores the id of its sink into the record
fmmCatalogSetId(r, t, cat, angle) ==
    [idx \in DOMAIN cat |->
        LET a == fmmIteration(r, t, cat[idx], angle)
        IN [cat[idx] EXCEPT !.fc = a.fc, !.dfcdr = a.dfcdr, !.dfcdrdr = a.dfcdrdr,
                            !.id = SinkOf(cat[idx]).id]]

\* the catalog after mpi_compute_fmm, and whether no assertion failed
fmmCatalog(r, t, cat, angle) ==
    [idx \in DOMAIN cat |->
        LET a == fmmIteration(r, t, cat[idx], angle)
        IN [cat[idx] EXCEPT !.fc = a.fc, !.dfcdr = a.dfcdr, !.dfcdrdr = a.dfcdrdr]]
fmmOk(r, t, cat, angle) ==
    \A idx \in DOMAIN cat : fmmIteration(r, t, cat[idx], angle).ok

(* ------------------------------- the gather ---------------------------- *)
\* soffsets[i] = soffsets[i-1] + nrecvCOM[i-1], with soffsets[0] = 0
RECURSIVE SendOffsetAt(_, _)
\* mutant: every message is taken from the start of the catalog
SendOffsetAtStart(bytes, q) == 0

SendOffsetAt(bytes, q) == IF q = 0 THEN 0 ELSE SendOffsetAt(bytes, q - 1) + bytes[q - 1]
\* noffsets[i] = noffsets[i-1] + nrecvCOM[rank], with noffsets[0] = 0
RECURSIVE RecvOffsetAt(_, _)
RecvOffsetAt(mine, q) == IF q = 0 THEN 0 ELSE RecvOffsetAt(mine, q - 1) + mine

\* the bytes rank q sends to rank r in MPI_Alltoallv: nrecvCOM[r] bytes of
\* q's catalog from q's send displacement for r
SentTo(q, r) ==
    LET first == SendOffsetAt(nrecvCOM[q], r) \div SizeofCell
        n == nrecvCOM[q][r] \div SizeofCell
    IN [j \in 1..n |-> IF first + j \in DOMAIN recvCOM[q] THEN recvCOM[q][first + j]
                        ELSE DefaultCell]

\* recvcells of rank r after MPI_Alltoallv: ncells*size default cells, the
\* message of rank q (at most nrecv[q] bytes of it) at noffsets[q]
Alltoallv(r) ==
    LET mine == nrecvCOM[r][r]
        ncells == mine \div SizeofCell
    IN [idx \in 1..(ncells * NRanks) |->
           LET from == {q \in Ranks :
                           LET at == RecvOffsetAt(mine, q) \div SizeofCell
                           IN /\ at < idx
                              /\ idx <= at + ncells
                              /\ idx - at <= Len(sent[q][r])}
           IN IF from = {} THEN DefaultCell
              ELSE LET q == SetMax(from)
                   IN sent[q][r][idx - RecvOffsetAt(mine, q) \div SizeofCell]]

\* the reduction loop: chunk i is added into chunk 0, for i = 1, 2, ...;
\* st = [cells, ok, big]: ok turns FALSE when the position or id of a slot
\* differs from chunk 0, big tells that some dfcdrdr sum is not zero, so that
\* the assertion dfcdrdr[k] < 1000 has a value it can fail on
RECURSIVE reduceSlots(_, _, _, _), reduceChunks(_, _, _)
reduceSlots(st, ncells, i, j) ==
    IF j = ncells \/ ~st.ok THEN st
    ELSE LET into == st.cells[j + 1]
             from == st.cells[i * ncells + j + 1]
         IN IF ~(REq(into.position, from.position) /\ into.id = from.id)
            THEN [st EXCEPT !.ok = FALSE]
            ELSE reduceSlots(
                     [st EXCEPT !.cells[j + 1] =
                                  [into EXCEPT !.fc = @ (+) from.fc,
                                               !.dfcdr = @ (+) from.dfcdr,
                                               !.dfcdrdr = @ (+) from.dfcdrdr],
                                !.big = @ \/ (into.dfcdrdr (+) from.dfcdrdr) # EmptyBag],
                     ncells, i, j + 1)

\* mutant: the loop over the chunks stops one chunk early
reduceChunksShort(st, ncells, i) ==
    IF i >= NRanks - 1 \/ ~st.ok THEN st
    ELSE reduceChunks(reduceSlots(st, ncells, i, 0), ncells, i + 1)

reduceChunks(st, ncells, i) ==
    IF i = NRanks \/ ~st.ok THEN st
    ELSE reduceChunks(reduceSlots(st, ncells, i, 0), ncells, i + 1)

(* ------------------- cell-to-particle and direct sum -------------------- *)
\* An acceleration is the formal sum [taylor, direct]: taylor holds one
\* [fc, dfcdr, dfcdrdr, at] for each Taylor expansion added by
\* sink_traversal_c2p, direct one body for each Newtonian term of the direct
\* sum.  An expansion of three zero tensors, like an empty direct sum, is the
\* value 0, and adding it leaves the acceleration as it is.
ZeroAcc == [taylor |-> EmptyBag, direct |-> EmptyBag]

TaylorTerm(cell, sinkPosition) ==
    IF cell.fc = EmptyBag /\ cell.dfcdr = EmptyBag /\ cell.dfcdrdr = EmptyBag
    THEN EmptyBag
    ELSE SetToBag({[fc |-> cell.fc, dfcdr |-> cell.dfcdr, dfcdrdr |-> cell.dfcdrdr,
                    at |-> sinkPosition]})

RECURSIVE sink_traversal_c2p(_, _, _, _, _, _), c2pBodies(_, _, _, _, _), c2pChildren(_, _, _, _, _, _, _)

\* the loop over the bodies of a sink leaf; st = [acc, touched, neighbors, ok]
c2pBodies(r, bs, sinkPosition, cell, st) ==
    IF bs = <<>> THEN st
    ELSE LET bi == Head(bs)
             st1 == IF ~is_local(r, bi) THEN st
                    ELSE [st EXCEPT !.acc[bi].taylor = @ (+) TaylorTerm(cell, sinkPosition),
                                    !.touched[bi] = @ + 1,
                                    !.neighbors = Append(@, bi)]
         IN c2pBodies(r, Tail(bs), sinkPosition, cell, st1)

\* sink_traversal_c2p of rank r on branch b of its tree t
sink_traversal_c2p(r, t, b, sinkPosition, cell, st) ==
    IF t[b].mass <= 0 THEN st
    ELSE IF t[b].isLeaf THEN c2pBodies(r, SeqOf(t[b].bodies), sinkPosition, cell, st)
    ELSE c2pChildren(r, t, b, sinkPosition, cell, st, 0)

c2pChildren(r, t, b, sinkPosition, cell, st, i) ==
    IF i = NChildren THEN st
    ELSE c2pChildren(r, t, b, sinkPosition, cell,
             sink_traversal_c2p(r, t, child(t, b, i), sinkPosition, cell, st), i + 1)

\* the inner loop of the direct sum: the terms of the bodies nb of subparts
\* at a positive distance from bi
RECURSIVE directTerms(_, _)
\* mutant: the direct sum does not test dist > 0
directTermsNoTest(bi, nbs) ==
    IF nbs = <<>> THEN EmptyBag
    ELSE SetToBag({Head(nbs)}) (+) directTerms(bi, Tail(nbs))

directTerms(bi, nbs) ==
    IF nbs = <<>> THEN EmptyBag
    ELSE (IF Dist2(bodies[bi].pos, bodies[Head(nbs)].pos) > 0
          THEN SetToBag({Head(nbs)}) ELSE EmptyBag) (+) directTerms(bi, Tail(nbs))

\* the outer loop of the direct sum over subparts
RECURSIVE directSum(_, _, _)
directSum(a, bis, subparts) ==
    IF bis = <<>> THEN a
    ELSE directSum([a EXCEPT ![Head(bis)].direct = @ (+) directTerms(Head(bis), subparts)],
                   Tail(bis), subparts)

\* the loop "propagate in the particles from sink" over the reduced cells
\* i, i+1, ... of rank r; the assertions sink != nullptr and
\* subparts.size() != 0 end it with ok = FALSE
RECURSIVE applyCells(_, _, _, _, _, _)
\* mutant: the descent of every cell starts at the root of the tree
applyCellsAtRoot(r, t, cells, ncells, i, st) ==
    IF i = ncells \/ ~st.ok THEN st
    ELSE LET cell == cells[i + 1]
             sink == root(t)
             st1 == sink_traversal_c2p(r, t, sink, t[sink].position, cell,
                        [st EXCEPT !.neighbors = <<>>])
         IN IF st1.neighbors = <<>> THEN [st1 EXCEPT !.ok = FALSE]
            ELSE applyCells(r, t, cells, ncells, i + 1,
                     [st1 EXCEPT !.acc = directSum(@, st1.neighbors, st1.neighbors)])

applyCells(r, t, cells, ncells, i, st) ==
    IF i = ncells \/ ~st.ok THEN st
    ELSE LET cell == cells[i + 1]
             sink == get(t, cell.id)
         IN IF sink = NullId THEN [st EXCEPT !.ok = FALSE]
            ELSE LET st1 == sink_traversal_c2p(r, t, sink, t[sink].position, cell,
                                [st EXCEPT !.neighbors = <<>>])
                 IN IF st1.neighbors = <<>> THEN [st1 EXCEPT !.ok = FALSE]
                    ELSE applyCells(r, t, cells, ncells, i + 1,
                             [st1 EXCEPT !.acc = directSum(@, st1.neighbors, st1.neighbors)])

(* --------------------------- initial states ---------------------------- *)
BodyOptions == [pos : Points, mass : 1..MaxBodyMass, rank : Ranks]

\* the universes are enumerated up to renumbering of the bodies
RECURSIVE PointCode(_, _)
PointCode(p, k) == IF k = 0 THEN 0 ELSE p[k] + Grid * PointCode(p, k - 1)
BodyKey(b) == (b.rank * (Grid ^ dimension) + PointCode(b.pos, dimension)) * (MaxBodyMass + 1) + b.mass
Canonical(bs) == \A i \in 2..Len(bs) : BodyKey(bs[i - 1]) <= BodyKey(bs[i])

Init ==
    /\ \E n \in 0..MaxBodies : \E bs \in [1..n -> BodyOptions] :
           Canonical(bs) /\ bodies = bs
    /\ ghosts \in BOOLEAN
    /\ hardened \in BOOLEAN
    /\ maxMass \in MaxMassValues
    /\ macangle \in MacAngles
    /\ tree = [r \in Ranks |-> BuildTree(bodies, ghosts, r)]
    /\ pc = [r \in Ranks |-> "idle"]
    /\ step = [r \in Ranks |-> 1]
    /\ vcells = [r \in Ranks |-> <<>>]
    /\ nrecvCOM = [r \in Ranks |-> <<>>]
    /\ noffsets = [r \in Ranks |-> <<>>]
    /\ recvCOM = [r \in Ranks |-> <<>>]
    /\ sent = [q \in Ranks |-> [r \in Ranks |-> <<>>]]
    /\ recvcells = [r \in Ranks |-> <<>>]
    /\ acc = [b \in DOMAIN bodies |-> ZeroAcc]
    /\ accLog = [b \in DOMAIN bodies |-> ZeroAcc]
    /\ touched = [b \in DOMAIN bodies |-> 0]
    /\ workers = [r \in Ranks |-> <<>>]
    /\ accessed = [r \in Ranks |-> {}]
    /\ hcall = [stage |-> "none"]

(* ------------------------------- actions ------------------------------- *)
\* rank q has entered the scatter collectives of the step rank r is in
InScatter(q, r) == step[q] = step[r] /\ pc[q] # "idle"
\* rank q has entered the gather collective of the step rank r is in
InGather(q, r) ==
    \/ step[q] > step[r]
    \/ step[q] = step[r] /\ pc[q] \in {"gather", "done", "failed_gather"}

\* mutant: vcells outlives the call and is not cleared before the traversal
ExchangeEnterKeep(r) ==
    /\ pc[r] = "idle"
    /\ LET v == vcells[r] \o traverse(tree[r], root(tree[r]), maxMass)
       IN /\ vcells' = [vcells EXCEPT ![r] = v]
          /\ nrecvCOM' = [nrecvCOM EXCEPT
                             ![r] = [q \in Ranks |-> IF q = r THEN Len(v) ELSE 0]]
    /\ pc' = [pc EXCEPT ![r] = "scatter"]
    /\ UNCHANGED <<hcall, workers, accessed, bodies, ghosts, hardened, tree, maxMass, macangle, step, noffsets, recvCOM,
                   sent, recvcells, acc, accLog, touched>>

\* mpi_exchange_cells up to the first collective: the frontier is selected,
\* nrecvCOM is cleared, resized and given the rank's own count
ExchangeEnter(r) ==
    /\ pc[r] = "idle"
    /\ LET v == traverse(tree[r], root(tree[r]), maxMass)
       IN /\ vcells' = [vcells EXCEPT ![r] = v]
          /\ nrecvCOM' = [nrecvCOM EXCEPT
                             ![r] = [q \in Ranks |-> IF q = r THEN Len(v) ELSE 0]]
    /\ pc' = [pc EXCEPT ![r] = "scatter"]
    /\ UNCHANGED <<hcall, workers, accessed, bodies, ghosts, hardened, tree, maxMass, macangle, step, noffsets, recvCOM,
                   sent, recvcells, acc, accLog, touched>>

\* &vcells[0] in the arguments of MPI_Allgatherv: operator[] on an empty
\* vector has no defined behaviour; a build whose operator[] checks its index
\* stops the process there, any other build passes the pointer on unread
EmptyBufferAbort(q) == hardened /\ vcells[q] = <<>>

\* mpi_exchange_cells from MPI_Allgather to its end; MPI_Allgatherv returns
\* once every rank has called it
ExchangeFinish(r) ==
    /\ pc[r] = "scatter"
    /\ \A q \in Ranks : InScatter(q, r)
    /\ LET counts == AllgatherCounts
           bytes == ByteCounts(counts)
           offs == ExchangeOffsets(bytes)
           total == TotalUpTo(counts, NRanks - 1)
           cat == Allgatherv(vcells, bytes, offs, total)
       IN /\ nrecvCOM' = [nrecvCOM EXCEPT ![r] = bytes]
          /\ noffsets' = [noffsets EXCEPT ![r] = offs]
          /\ IF EmptyBufferAbort(r)
             THEN /\ recvCOM' = [recvCOM EXCEPT ![r] = [idx \in 1..total |-> DefaultCell]]
                  /\ pc' = [pc EXCEPT ![r] = "failed_empty"]
             ELSE /\ \A q \in Ranks : ~EmptyBufferAbort(q)
                  /\ recvCOM' = [recvCOM EXCEPT ![r] = cat]
                  /\ pc' = [pc EXCEPT ![r] = IF OwnSliceInOrder(vcells[r], cat, offs[r])
                                              THEN "scattered" ELSE "failed_scatter"]
    /\ UNCHANGED <<hcall, workers, accessed, bodies, ghosts, hardened, tree, maxMass, macangle, step, vcells, sent,
                   recvcells, acc, accLog, touched>>

\* mpi_compute_fmm
ComputeFmm(r) ==
    /\ pc[r] = "scattered"
    /\ recvCOM' = [recvCOM EXCEPT ![r] = fmmCatalog(r, tree[r], recvCOM[r], macangle)]
    /\ pc' = [pc EXCEPT ![r] = IF fmmOk(r, tree[r], recvCOM[r], macangle)
                                THEN "computed" ELSE "failed_compute"]
    /\ UNCHANGED <<hcall, workers, accessed, bodies, ghosts, hardened, tree, maxMass, macangle, step, vcells, nrecvCOM,
                   noffsets, sent, recvcells, acc, accLog, touched>>

\* mpi_gather_cells up to MPI_Alltoallv: the rank's messages leave
GatherEnter(r) ==
    /\ pc[r] = "computed"
    /\ sent' = [sent EXCEPT ![r] = [d \in Ranks |-> SentTo(r, d)]]
    /\ pc' = [pc EXCEPT ![r] = "gather"]
    /\ UNCHANGED <<hcall, workers, accessed, bodies, ghosts, hardened, tree, maxMass, macangle, step, vcells, nrecvCOM,
                   noffsets, recvCOM, recvcells, acc, accLog, touched>>

\* mpi_gather_cells from MPI_Alltoallv to its end: receive, reduce, apply.
\* The assertion dfcdrdr[k] < 1000 may fail when some sum is not zero.
GatherFinish(r) ==
    /\ pc[r] = "gather"
    /\ \A q \in Ranks : InGather(q, r)
    /\ LET ncells == nrecvCOM[r][r] \div SizeofCell
           red == reduceChunks([cells |-> Alltoallv(r), ok |-> TRUE, big |-> FALSE],
                               ncells, 1)
           ap == applyCells(r, tree[r], red.cells, ncells, 0,
                     [acc |-> acc, touched |-> touched, neighbors |-> <<>>, ok |-> TRUE])
       IN /\ recvcells' = [recvcells EXCEPT ![r] = red.cells]
          /\ \E high \in (IF red.big THEN BOOLEAN ELSE {FALSE}) :
                IF ~red.ok \/ high
                THEN /\ pc' = [pc EXCEPT ![r] = "failed_gather"]
                     /\ UNCHANGED <<acc, touched>>
                ELSE /\ pc' = [pc EXCEPT ![r] = IF ap.ok THEN "done" ELSE "failed_gather"]
                     /\ acc' = ap.acc
                     /\ touched' = ap.touched
    /\ UNCHANGED <<hcall, workers, accessed, bodies, ghosts, hardened, tree, maxMass, macangle, step, vcells, nrecvCOM,
                   noffsets, recvCOM, sent, accLog>>

\* the driver of rank r starts the next gravity step on the unchanged tree,
\* from a zeroed acceleration field
NextStep(r) ==
    /\ pc[r] = "done"
    /\ step[r] < MaxSteps
    /\ accLog' = [b \in DOMAIN bodies |-> IF bodies[b].rank = r THEN acc[b] ELSE accLog[b]]
    /\ acc' = [b \in DOMAIN bodies |-> IF bodies[b].rank = r THEN ZeroAcc ELSE acc[b]]
    /\ touched' = [b \in DOMAIN bodies |-> IF bodies[b].rank = r THEN 0 ELSE touched[b]]
    /\ step' = [step EXCEPT ![r] = @ + 1]
    /\ pc' = [pc EXCEPT ![r] = "idle"]
    /\ UNCHANGED <<hcall, workers, accessed, bodies, ghosts, hardened, tree, maxMass, macangle, vcells, nrecvCOM, noffsets,
                   recvCOM, sent, recvcells>>

Next ==
    \E r \in Ranks :
        \/ ExchangeEnter(r)
        \/ ExchangeFinish(r)
        \/ ComputeFmm(r)
        \/ GatherEnter(r)
        \/ GatherFinish(r)
        \/ NextStep(r)

Spec == Init /\ [][Next]_vars

(* ------------- mpi_compute_fmm at the grain of its workers ------------- *)
\* The parallel for of mpi_compute_fmm hands each catalog slot to one
\* iteration; the iterations run in any interleaving.  An iteration builds
\* its private sink from its cell, then walks the tree; the walk depends on
\* the tree and the sink only, so the calls of computeAcceleration it makes
\* are known once the sink is built, and each call is one step.  The tree is
\* read by every iteration and written by none.
TensorFields == {"fc", "dfcdr", "dfcdrdr"}
SinkFields == {"position", "bmax", "bmin"}

\* mutant: every iteration is handed the first slot of the catalog
SlotOfFirst(idx) == 1

\* the catalog slot the iterator cell of iteration idx points to
SlotOf(idx) == idx

Accesses(idx, fields, kind) ==
    {[it |-> idx, slot |-> SlotOf(idx), field |-> f, kind |-> kind] : f \in fields}

\* entry of the parallel region
FmmFork(r) ==
    /\ pc[r] = "scattered"
    /\ workers' = [workers EXCEPT ![r] =
                      [idx \in DOMAIN recvCOM[r] |->
                          [stage |-> "new", sink |-> SinkOf(DefaultCell), calls |-> <<>>]]]
    /\ accessed' = [accessed EXCEPT ![r] = {}]
    /\ pc' = [pc EXCEPT ![r] = "computing"]
    /\ UNCHANGED <<hcall, bodies, ghosts, hardened, tree, maxMass, macangle, step, vcells,
                   nrecvCOM, noffsets, recvCOM, sent, recvcells, acc, accLog, touched>>

\* iteration idx starts: branch_t sink with the position and box of its cell
FmmIterStart(r, idx) ==
    /\ pc[r] = "computing"
    /\ idx \in DOMAIN workers[r]
    /\ workers[r][idx].stage = "new"
    /\ LET sink == SinkOf(recvCOM[r][SlotOf(idx)])
           walk == tree_traversal_c2c(r, tree[r], sink, root(tree[r]), macangle,
                       [fc |-> EmptyBag, dfcdr |-> EmptyBag, dfcdrdr |-> EmptyBag,
                        ok |-> TRUE, calls |-> <<>>])
       IN workers' = [workers EXCEPT ![r][idx] =
                         [stage |-> IF walk.calls = <<>> THEN "end" ELSE "run",
                          sink |-> sink, calls |-> walk.calls]]
    /\ accessed' = [accessed EXCEPT ![r] = @ \cup Accesses(idx, SinkFields, "read")]
    /\ UNCHANGED <<hcall, bodies, ghosts, hardened, tree, maxMass, macangle, pc, step, vcells,
                   nrecvCOM, noffsets, recvCOM, sent, recvcells, acc, accLog, touched>>

\* iteration idx makes its next call of computeAcceleration on cell->fc,
\* cell->dfcdr, cell->dfcdrdr; a failed assertion ends the process
FmmCall(r, idx) ==
    /\ pc[r] = "computing"
    /\ idx \in DOMAIN workers[r]
    /\ workers[r][idx].stage = "run"
    /\ LET term == Head(workers[r][idx].calls)
           cell == recvCOM[r][SlotOf(idx)]
           a == computeAcceleration(term.sink, term.source, term.mass, term.of,
                    [fc |-> cell.fc, dfcdr |-> cell.dfcdr, dfcdrdr |-> cell.dfcdrdr,
                     ok |-> TRUE, calls |-> <<>>])
           rest == Tail(workers[r][idx].calls)
       IN /\ recvCOM' = [recvCOM EXCEPT ![r][SlotOf(idx)] =
                             [cell EXCEPT !.fc = a.fc, !.dfcdr = a.dfcdr,
                                          !.dfcdrdr = a.dfcdrdr]]
          /\ workers' = [workers EXCEPT ![r][idx].calls = rest,
                                        ![r][idx].stage = IF rest = <<>> THEN "end" ELSE "run"]
          /\ pc' = [pc EXCEPT ![r] = IF a.ok THEN "computing" ELSE "failed_compute"]
    /\ accessed' = [accessed EXCEPT ![r] = @ \cup Accesses(idx, TensorFields, "write")]
    /\ UNCHANGED <<hcall, bodies, ghosts, hardened, tree, maxMass, macangle, step, vcells,
                   nrecvCOM, noffsets, sent, recvcells, acc, accLog, touched>>

\* mutant: the parallel for does not wait for its iterations (nowait)
FmmJoinNoWait(r) ==
    /\ pc[r] = "computing"
    /\ pc' = [pc EXCEPT ![r] = "computed"]
    /\ UNCHANGED <<hcall, workers, accessed, bodies, ghosts, hardened, tree, maxMass, macangle,
                   step, vcells, nrecvCOM, noffsets, recvCOM, sent, recvcells, acc,
                   accLog, touched>>

\* the barrier that ends the parallel for: mpi_compute_fmm returns when
\* every iteration has ended
FmmJoin(r) ==
    /\ pc[r] = "computing"
    /\ \A idx \in DOMAIN workers[r] : workers[r][idx].stage = "end"
    /\ pc' = [pc EXCEPT ![r] = "computed"]
    /\ UNCHANGED <<hcall, workers, accessed, bodies, ghosts, hardened, tree, maxMass, macangle,
                   step, vcells, nrecvCOM, noffsets, recvCOM, sent, recvcells, acc,
                   accLog, touched>>

\* one gravity step with tuning parameters in their documented ranges
InitFmm == Init /\ maxMass > 0 /\ macangle.num > 0 /\ macangle.num <= macangle.den

NextFmm ==
    \E r \in Ranks :
        \/ ExchangeEnter(r)
        \/ ExchangeFinish(r)
        \/ FmmFork(r)
        \/ \E idx \in DOMAIN workers[r] : FmmIterStart(r, idx)
        \/ \E idx \in DOMAIN workers[r] : FmmCall(r, idx)
        \/ FmmJoin(r)
        \/ GatherEnter(r)
        \/ GatherFinish(r)

SpecFmm == InitFmm /\ [][NextFmm]_vars

(* ------------- the reduction loop on any received buffer --------------- *)
\* The reduction of mpi_gather_cells applied to a receive buffer of one slot
\* per chunk, whatever the records in it are: what the loop does with chunks
\* that do not agree.
ReceivedCells ==
    {mpi_cell_t(AtPoint([k \in Axes |-> x]), [k \in Axes |-> lo], [k \in Axes |-> hi], id) :
        x \in 0..1, lo \in 0..1, hi \in 1..2, id \in {RootId, <<0>>}}

InitReduce ==
    /\ bodies = <<>>
    /\ ghosts = FALSE
    /\ hardened = FALSE
    /\ maxMass = 2
    /\ macangle = [num |-> 1, den |-> 2]
    /\ tree = [r \in Ranks |-> BuildTree(bodies, ghosts, r)]
    /\ pc = [r \in Ranks |-> "gather"]
    /\ step = [r \in Ranks |-> 1]
    /\ vcells = [r \in Ranks |-> <<>>]
    /\ nrecvCOM = [r \in Ranks |-> [q \in Ranks |-> SizeofCell]]
    /\ noffsets = [r \in Ranks |-> <<>>]
    /\ recvCOM = [r \in Ranks |-> <<>>]
    /\ sent = [q \in Ranks |-> [r \in Ranks |-> <<>>]]
    /\ \E buf \in [1..NRanks -> ReceivedCells] : recvcells = [r \in Ranks |-> buf]
    /\ acc = <<>>
    /\ accLog = <<>>
    /\ touched = <<>>
    /\ workers = [r \in Ranks |-> <<>>]
    /\ accessed = [r \in Ranks |-> {}]
    /\ hcall = [stage |-> "none"]

\* the loop "reduce the sum on the COM" of rank r on its receive buffer
Reduce(r) ==
    /\ pc[r] = "gather"
    /\ LET ncells == nrecvCOM[r][r] \div SizeofCell
           red == reduceChunks([cells |-> recvcells[r], ok |-> TRUE, big |-> FALSE],
                               ncells, 1)
       IN /\ recvcells' = [recvcells EXCEPT ![r] = red.cells]
          /\ pc' = [pc EXCEPT ![r] = IF red.ok THEN "reduced" ELSE "failed_gather"]
    /\ UNCHANGED <<hcall, workers, accessed, bodies, ghosts, hardened, tree, maxMass, macangle,
                   step, vcells, nrecvCOM, noffsets, recvCOM, sent, acc, accLog, touched>>

NextReduce == \E r \in Ranks : Reduce(r)

SpecReduce == InitReduce /\ [][NextReduce]_vars

(* --------------- the Hessian loop of computeAcceleration --------------- *)
\* The loop over i, j, k in 0..2 that adds to hessian[i*9 + j*3 + k], on
\* integer components of diffPos.  The value added is hessiancoeff times
\* (firstterm - 5/dist^2 * diffPos[i]*diffPos[j]*diffPos[k]); firstterm is
\* the part the test on the three indices decides.
HessianIndices == 0..2
DiffPositions == [HessianIndices -> (0 - MaxDiff)..MaxDiff]

\* a bool converted to int, as in the comparison of a bool with an int
BoolAsInt(b) == IF b THEN 1 ELSE 0
\* i==j==k as the compiler reads it: (i==j)==k
ChainedEqual(i, j, k) == BoolAsInt(i = j) = k

\* firstterm after the four tests of one pass
firstterm(i, j, k, diffPos) ==
    LET sum == (IF i = j THEN diffPos[k] ELSE 0)
               + (IF j = k THEN diffPos[i] ELSE 0)
               + (IF k = i THEN diffPos[j] ELSE 0)
    IN IF ~ChainedEqual(i, j, k) THEN sum * 3 ELSE sum

InitHessian ==
    /\ bodies = <<>>
    /\ ghosts = FALSE
    /\ hardened = FALSE
    /\ maxMass = 2
    /\ macangle = [num |-> 1, den |-> 2]
    /\ tree = [r \in Ranks |-> BuildTree(bodies, ghosts, r)]
    /\ pc = [r \in Ranks |-> "idle"]
    /\ step = [r \in Ranks |-> 1]
    /\ vcells = [r \in Ranks |-> <<>>]
    /\ nrecvCOM = [r \in Ranks |-> <<>>]
    /\ noffsets = [r \in Ranks |-> <<>>]
    /\ recvCOM = [r \in Ranks |-> <<>>]
    /\ sent = [q \in Ranks |-> [r \in Ranks |-> <<>>]]
    /\ recvcells = [r \in Ranks |-> <<>>]
    /\ acc = <<>>
    /\ accLog = <<>>
    /\ touched = <<>>
    /\ workers = [r \in Ranks |-> <<>>]
    /\ accessed = [r \in Ranks |-> {}]
    /\ hcall \in [stage : {"pass"}, i : HessianIndices, j : HessianIndices,
                  k : HessianIndices, diffPos : DiffPositions, firstterm : {0}]

\* one pass of the innermost loop, up to the update of hessian[position]
HessianPass ==
    /\ hcall.stage = "pass"
    /\ hcall' = [hcall EXCEPT !.stage = "added",
                              !.firstterm = firstterm(hcall.i, hcall.j, hcall.k, hcall.diffPos)]
    /\ UNCHANGED <<workers, accessed, bodies, ghosts, hardened, tree, maxMass, macangle,
                   pc, step, vcells, nrecvCOM, noffsets, recvCOM, sent, recvcells, acc,
                   accLog, touched>>

NextHessian == HessianPass

SpecHessian == InitHessian /\ [][NextHessian]_vars

(* ============================== claims ================================= *)
\* number of cells the ranks below r submitted: the slot before r's first
\* cell in every catalog
SlotsBefore(r) == SumFn([q \in {p \in Ranks : p < r} |-> Len(vcells[q])])

\* what rank p wrote during its C2C phase for the j-th cell of rank r
WrittenBy(p, r, j) == recvCOM[p][SlotsBefore(r) + j]

\* chunks 1..p added in ascending rank order onto the chunk of rank 0
RECURSIVE SumFc(_, _, _), SumDfcdr(_, _, _), SumDfcdrdr(_, _, _)
SumFc(p, r, j) ==
    IF p = 0 THEN WrittenBy(0, r, j).fc ELSE SumFc(p - 1, r, j) (+) WrittenBy(p, r, j).fc
SumDfcdr(p, r, j) ==
    IF p = 0 THEN WrittenBy(0, r, j).dfcdr
    ELSE SumDfcdr(p - 1, r, j) (+) WrittenBy(p, r, j).dfcdr
SumDfcdrdr(p, r, j) ==
    IF p = 0 THEN WrittenBy(0, r, j).dfcdrdr
    ELSE SumDfcdrdr(p - 1, r, j) (+) WrittenBy(p, r, j).dfcdrdr

SameCell(c, v) ==
    /\ c.id = v.id /\ c.position = v.position /\ c.bmin = v.bmin /\ c.bmax = v.bmax

RECURSIVE Submitted(_)
Submitted(q) == IF q < 0 THEN <<>> ELSE Submitted(q - 1) \o vcells[q]

\* C2 (scatter preservation): when mpi_exchange_cells has returned on rank r,
\* its catalog recvCOM is the concatenation of all ranks' frontiers in
\* ascending rank order, nrecvCOM[q] is the size of rank q's frontier in bytes,
\* the offset of rank q is the sum of the counts below q, and the slice at the
\* rank's own offset is its own frontier, record for record.
C2_ScatterPreserves ==
    \A r \in Ranks :
        /\ pc[r] # "failed_scatter"
        /\ pc[r] = "scattered" =>
              /\ recvCOM[r] = Submitted(NRanks - 1)
              /\ \A q \in Ranks :
                    /\ nrecvCOM[r][q] = Len(vcells[q]) * SizeofCell
                    /\ noffsets[r][q] = SlotsBefore(q) * SizeofCell
              /\ SubSeq(recvCOM[r], noffsets[r][r] \div SizeofCell + 1,
                        (noffsets[r][r] + nrecvCOM[r][r]) \div SizeofCell) = vcells[r]

\* witness of C2: a returned scatter on a rank whose own slice has two cells
\* and does not start the catalog
C2_Witness ==
    \E r \in Ranks :
        /\ pc[r] = "scattered"
        /\ Len(vcells[r]) >= 2
        /\ SlotsBefore(r) >= 1

\* rank r has selected its frontier in the step it is in
Selected(r) == pc[r] # "idle"

\* C3 (frontier coverage): for maxMass > 0, the masses of the branches the
\* frontier traversal emitted add up to the mass of the root.
C3_FrontierCoverage ==
    \A r \in Ranks :
        (Selected(r) /\ maxMass > 0) =>
            SumFn([j \in 1..Len(vcells[r]) |-> tree[r][vcells[r][j].id].mass])
                = tree[r][RootId].mass

\* witness of C3: a frontier of two cells below a root that was opened, in a
\* tree that also has a branch of mass zero
C3_Witness ==
    \E r \in Ranks :
        /\ Selected(r) /\ maxMass > 0
        /\ Len(vcells[r]) >= 2
        /\ \E b \in DOMAIN tree[r] : tree[r][b].mass = 0

\* branch id a is the id of b or of an ancestor of b
IsPrefix(a, b) == Len(a) <= Len(b) /\ SubSeq(b, 1, Len(a)) = a

\* C4 (frontier disjointness): no emitted branch is a descendant or a
\* duplicate of another emitted branch.
C4_FrontierDisjoint ==
    \A r \in Ranks :
        Selected(r) =>
            \A i, j \in 1..Len(vcells[r]) :
                i # j => ~IsPrefix(vcells[r][i].id, vcells[r][j].id)

\* witness of C4: an internal branch with a child of positive mass was
\* emitted, so that there are branches below an emitted one to stay out of
C4_Witness ==
    \E r \in Ranks : \E i \in 1..Len(vcells[r]) :
        /\ Selected(r)
        /\ ~tree[r][vcells[r][i].id].isLeaf
        /\ \E c \in 0..(NChildren - 1) : tree[r][child(tree[r], vcells[r][i].id, c)].mass > 0

\* the tuning parameters are in their documented ranges: maxMass > 0 and
\* 0 < macangle <= 1
ValidConfig == maxMass > 0 /\ macangle.num > 0 /\ macangle.num <= macangle.den

\* the C2C term t carries the mass of body b2: it is the term of that body, or
\* of a branch of the body's rank whose cell holds the body
Carries(t, b2) ==
    \/ t.of.kind = "body" /\ t.of.id = <<b2>>
    \/ t.of.kind = "branch" /\ t.of.rank = bodies[b2].rank /\ InCell(t.of.id, bodies[b2].pos)

\* how often the mass of b2 is in the tensor sum fc (terms counted with multiplicity)
CarriedIn(fc, b2) ==
    SumFn([t \in BagToSet(fc) |-> IF Carries(t, b2) THEN CopiesIn(t, fc) ELSE 0])

\* how often the mass of body b2 enters the acceleration of body b1: through
\* the Taylor expansions of the reduced cells and through the direct sum
TimesCounted(b1, b2) ==
    SumFn([T \in BagToSet(acc[b1].taylor) |->
              CopiesIn(T, acc[b1].taylor) * CarriedIn(T.fc, b2)])
    + CopiesIn(b2, acc[b1].direct)

\* C5 (once-only counting), as claimed: after a full step with valid tuning
\* parameters, the mass of every other body at a different position, on any
\* rank, has entered the acceleration of a local body exactly once.
C5_OnceOnly ==
    \A b1, b2 \in DOMAIN bodies :
        (/\ ValidConfig
         /\ \A r \in Ranks : pc[r] = "done"
         /\ b1 # b2
         /\ ~PtEq(bodies[b1].pos, bodies[b2].pos))
        => TimesCounted(b1, b2) = 1

ZeroTensors(c) == c.fc = EmptyBag /\ c.dfcdr = EmptyBag /\ c.dfcdrdr = EmptyBag
Failed(r) == pc[r] \in {"failed_scatter", "failed_compute", "failed_gather"}

\* C6 (no self-interaction): in a universe of exactly one body, whatever the
\* number of steps taken, every tensor of every catalog and of every reduced
\* cell is zero on every rank, no assertion fails, and the acceleration of the
\* body is what it was.
C6_NoSelfInteraction ==
    Len(bodies) = 1 =>
        /\ acc[1] = ZeroAcc
        /\ \A r \in Ranks :
              /\ ~Failed(r)
              /\ \A i \in DOMAIN recvCOM[r] : ZeroTensors(recvCOM[r][i])
              /\ \A i \in DOMAIN recvcells[r] : ZeroTensors(recvcells[r][i])

\* witness of C6: the single body has been through the Taylor update and the
\* direct sum of its own frontier cell, and every rank has finished the step
C6_Witness ==
    /\ Len(bodies) = 1
    /\ touched[1] = 1
    /\ \A r \in Ranks : pc[r] = "done"

\* the tree t with everything below its branches of mass zero pruned: such a
\* branch is left as a leaf without bodies
Prune(t) ==
    [b \in {c \in DOMAIN t : \A n \in 0..(Len(c) - 1) : t[SubSeq(c, 1, n)].mass # 0} |->
        IF t[b].mass = 0 THEN [t[b] EXCEPT !.isLeaf = TRUE, !.bodies = {}] ELSE t[b]]

\* the C2C term t is the contribution of a branch of mass zero
ZeroMassTerm(t) == t.of.kind = "branch" /\ tree[t.of.rank][t.of.id].mass = 0

FreshStep == [acc |-> [b \in DOMAIN bodies |-> ZeroAcc],
              touched |-> [b \in DOMAIN bodies |-> 0],
              neighbors |-> <<>>, ok |-> TRUE]

\* C7 (zero-mass branches are transparent): no frontier cell is a branch of
\* mass zero, no tensor holds a contribution of such a branch, and the
\* frontier, the tensors written by the C2C phase and the accelerations are
\* those the same step gives on the tree with everything below its zero-mass
\* branches pruned.
C7_ZeroMassTransparent ==
    \A r \in Ranks :
        /\ Selected(r) =>
              /\ \A j \in 1..Len(vcells[r]) : tree[r][vcells[r][j].id].mass # 0
              /\ vcells[r] = traverse(Prune(tree[r]), RootId, maxMass)
        /\ pc[r] = "computed" =>
              /\ \A i \in DOMAIN recvCOM[r] :
                    \A t \in BagToSet(recvCOM[r][i].fc) : ~ZeroMassTerm(t)
              /\ recvCOM[r] = fmmCatalog(r, Prune(tree[r]), Submitted(NRanks - 1), macangle)
        /\ pc[r] = "done" =>
              \A b \in DOMAIN bodies :
                  bodies[b].rank = r =>
                      /\ acc[b] = applyCells(r, Prune(tree[r]), recvcells[r],
                                      Len(vcells[r]), 0, FreshStep).acc[b]
                      /\ touched[b] = applyCells(r, Prune(tree[r]), recvcells[r],
                                          Len(vcells[r]), 0, FreshStep).touched[b]

\* witness of C7: a rank has finished a step on a tree that has, next to a
\* frontier cell, a branch of mass zero holding a body, and one of its bodies
\* was accelerated
C7_Witness ==
    \E r \in Ranks :
        /\ pc[r] = "done"
        /\ \E b \in DOMAIN tree[r] : tree[r][b].mass = 0 /\ tree[r][b].bodies # {}
        /\ \E b \in DOMAIN bodies : bodies[b].rank = r /\ acc[b] # ZeroAcc

\* C8 (returned cells resolve): for each of a rank's own reduced cells in
\* mpi_gather_cells, tree.get(cell.id) is a branch of the rank's tree, the
\* one the cell was created from at scatter time (same id, centre of mass and
\* box); the tree is the same in both operations.
C8_CellsResolve ==
    \A r \in Ranks :
        pc[r] \in {"done", "failed_gather"} =>
            \A j \in 1..Len(vcells[r]) :
                LET cell == recvcells[r][j]
                    sink == get(tree[r], cell.id)
                IN /\ sink # NullId
                   /\ sink = vcells[r][j].id
                   /\ tree[r][sink].position = cell.position
                   /\ tree[r][sink].bmin = cell.bmin
                   /\ tree[r][sink].bmax = cell.bmax

\* witness of C8: a rank that is not rank 0 has resolved two cells, below
\* the root of its tree, behind the cells of a lower rank in the catalog
C8_Witness ==
    \E r \in Ranks :
        /\ pc[r] = "done"
        /\ SlotsBefore(r) > 0
        /\ Len(vcells[r]) >= 2
        /\ recvcells[r][2].id # RootId

\* C9 (idempotence under repeat): a step repeated on the unchanged tree from
\* a zeroed acceleration field ends with the accelerations the step before
\* ended with, and its scatter delivers a catalog that holds the frontiers of
\* this step with all tensors zero: nothing of the step before is left in
\* the counts, the offsets or the catalog.
C9_Idempotent ==
    \A r \in Ranks :
        step[r] >= 2 =>
            /\ pc[r] = "scattered" =>
                  /\ recvCOM[r] = Submitted(NRanks - 1)
                  /\ \A i \in DOMAIN recvCOM[r] : ZeroTensors(recvCOM[r][i])
                  /\ \A q \in Ranks :
                        /\ nrecvCOM[r][q] = Len(vcells[q]) * SizeofCell
                        /\ noffsets[r][q] = SlotsBefore(q) * SizeofCell
            /\ pc[r] = "done" =>
                  \A b \in DOMAIN bodies : bodies[b].rank = r => acc[b] = accLog[b]

\* witness of C9: a second step has ended on a rank one of whose bodies got
\* a far-field contribution and a direct one
C9_Witness ==
    \E r \in Ranks : \E b \in DOMAIN bodies :
        /\ step[r] = 2 /\ pc[r] = "done"
        /\ bodies[b].rank = r
        /\ acc[b].taylor # EmptyBag
        /\ acc[b].direct # EmptyBag

\* C10 (configuration errors fail at the start of the step), as claimed: with
\* maxMass <= 0 or macangle outside (0, 1] no rank selects a frontier cell,
\* gets past a collective or writes an acceleration.
C10_ConfigRejected ==
    ~ValidConfig =>
        /\ \A r \in Ranks :
              /\ vcells[r] = <<>>
              /\ pc[r] \notin {"scattered", "computed", "gather", "done"}
        /\ \A b \in DOMAIN bodies : acc[b] = ZeroAcc /\ touched[b] = 0

\* rank r was stopped by a failed check of any kind
Stopped(r) == Failed(r) \/ pc[r] = "failed_empty"

\* C11 (no partial result), as claimed: when, with valid tuning parameters, a
\* rank was stopped by a failure during a gravity step, no body of any rank
\* has had its acceleration modified by that step.
C11_NoPartialResult ==
    \A r \in Ranks :
        (ValidConfig /\ Stopped(r)) =>
            \A b \in DOMAIN bodies :
                step[bodies[b].rank] = step[r] => acc[b] = ZeroAcc /\ touched[b] = 0

\* the frontiers of the ranks 0..q that selected at least one cell, in rank order
RECURSIVE SubmittedNonEmpty(_)
SubmittedNonEmpty(q) ==
    IF q < 0 THEN <<>>
    ELSE SubmittedNonEmpty(q - 1) \o (IF vcells[q] = <<>> THEN <<>> ELSE vcells[q])

\* C12 (empty frontier is legal), as claimed: a rank that selected an empty
\* frontier is stopped by no check in any phase, every rank's scatter counts
\* zero bytes for it, the gather receives no record on it and sends none to
\* it, and the catalog of every rank is the one the other ranks alone give.
C12_EmptyFrontierLegal ==
    \A r \in Ranks :
        (ValidConfig /\ Selected(r) /\ vcells[r] = <<>>) =>
            /\ ~Stopped(r)
            /\ pc[r] = "done" => recvcells[r] = <<>>
            /\ \A p \in Ranks :
                  (step[p] = step[r] /\ pc[p] \in {"scattered", "computed", "gather", "done"}) =>
                      /\ nrecvCOM[p][r] = 0
                      /\ Len(recvCOM[p]) = Len(SubmittedNonEmpty(NRanks - 1))
                      /\ \A i \in DOMAIN recvCOM[p] :
                            SameCell(recvCOM[p][i], SubmittedNonEmpty(NRanks - 1)[i])
                      /\ pc[p] \in {"gather", "done"} => sent[p][r] = <<>>

\* C13 (positive distance precondition), as claimed: with valid tuning
\* parameters, in no run of mpi_compute_fmm is computeAcceleration called
\* with a source position equal to the sink position: the assertion
\* dist > 0 fails on no rank, for no catalog cell.
C13_PositiveDistance ==
    ValidConfig =>
        \A r \in Ranks :
            /\ pc[r] # "failed_compute"
            /\ pc[r] = "scattered" => fmmOk(r, tree[r], recvCOM[r], macangle)

\* C14 (race freedom of the C2C phase): in every interleaving of the
\* iterations of the parallel for, an iteration writes only the fc, dfcdr and
\* dfcdrdr of its own catalog slot, no location written by one iteration is
\* read or written by another, and the catalog mpi_compute_fmm returns is the
\* one the iterations give when run one after the other.
C14_RaceFree ==
    \A r \in Ranks :
        /\ \A a \in accessed[r] :
              a.kind = "write" => a.slot = a.it /\ a.field \in TensorFields
        /\ \A a, b \in accessed[r] :
              (a.it # b.it /\ a.slot = b.slot /\ a.field = b.field) =>
                  (a.kind = "read" /\ b.kind = "read")
        /\ pc[r] = "computed" =>
              recvCOM[r] = fmmCatalog(r, tree[r], Submitted(NRanks - 1), macangle)

\* witness of C14: an iteration is between two of its calls of
\* computeAcceleration while another iteration has written its tensors
C14_Witness ==
    \E r \in Ranks : \E i, j \in DOMAIN workers[r] :
        /\ pc[r] = "computing"
        /\ i # j
        /\ workers[r][i].stage = "run"
        /\ \E a \in accessed[r] : a.it = i /\ a.kind = "write"
        /\ \E a \in accessed[r] : a.it = j /\ a.kind = "write"

\* C15 (bulk-synchronous phase ordering), for a step whose three phases the
\* driver calls in order: no iteration of the C2C phase of a rank exists
\* before the rank's scatter has returned, and while iterations run the
\* catalog holds every rank's frontier; every iteration has ended when the
\* rank is past mpi_compute_fmm; each message a rank has sent in the gather
\* holds, for each cell of the receiver, the final tensors of the sender's
\* C2C phase; and no body of a rank has a written acceleration before
\* MPI_Alltoallv has returned on that rank.
C15_PhaseOrdering ==
    \A r \in Ranks :
        /\ pc[r] \in {"idle", "scatter", "scattered", "failed_empty", "failed_scatter"} =>
              workers[r] = <<>>
        /\ pc[r] = "computing" =>
              /\ Len(recvCOM[r]) = Len(Submitted(NRanks - 1))
              /\ \A i \in DOMAIN recvCOM[r] :
                    SameCell(recvCOM[r][i], Submitted(NRanks - 1)[i])
        /\ pc[r] \in {"computed", "gather", "done", "failed_gather"} =>
              \A idx \in DOMAIN workers[r] : workers[r][idx].stage = "end"
        /\ pc[r] \in {"gather", "done", "failed_gather"} =>
              \A d \in Ranks :
                  /\ Len(sent[r][d]) = Len(vcells[d])
                  /\ \A j \in 1..Len(vcells[d]) :
                        sent[r][d][j] =
                            fmmCatalog(r, tree[r], Submitted(NRanks - 1), macangle)[SlotsBefore(d) + j]
        /\ pc[r] \notin {"done", "failed_gather"} =>
              \A b \in DOMAIN bodies :
                  bodies[b].rank = r => acc[b] = ZeroAcc /\ touched[b] = 0

\* witness of C15: a rank has returned from the gather with a chunk of
\* another rank in which a cell's fc was accumulated by two calls
C15_Witness ==
    \E r, p \in Ranks : \E j \in 1..Len(vcells[r]) :
        /\ p # r
        /\ pc[r] = "done"
        /\ workers[p] # <<>>
        /\ BagCardinality(sent[p][r][j].fc) >= 2

\* C16 (frame of the C2C phase): mpi_compute_fmm leaves the position, bmin,
\* bmax and id of every catalog record, the counts and offsets, the frontier,
\* the gather buffers and every acceleration as they are; an acceleration
\* changes only in the step in which mpi_gather_cells returns on the rank of
\* the body (or when the driver resets it between two steps); and no step
\* changes a branch of a tree or a body.
C16_FrameOfC2C ==
    [][/\ tree' = tree
       /\ bodies' = bodies
       /\ \A r \in Ranks :
             (pc[r] = "scattered" /\ pc'[r] # "scattered") =>
                 /\ Len(recvCOM'[r]) = Len(recvCOM[r])
                 /\ \A i \in DOMAIN recvCOM[r] : SameCell(recvCOM'[r][i], recvCOM[r][i])
                 /\ nrecvCOM' = nrecvCOM /\ noffsets' = noffsets /\ vcells' = vcells
                 /\ sent' = sent /\ recvcells' = recvcells
                 /\ acc' = acc /\ touched' = touched
       /\ \A b \in DOMAIN bodies :
             acc'[b] # acc[b] =>
                 \/ pc[bodies[b].rank] = "gather"
                    /\ pc'[bodies[b].rank] \in {"done", "failed_gather"}
                 \/ pc[bodies[b].rank] = "done" /\ pc'[bodies[b].rank] = "idle"
      ]_vars

\* witness of C16: mpi_compute_fmm has returned with a tensor it wrote in a
\* record whose id is the id of a branch below the root
C16_Witness ==
    \E r \in Ranks : \E i \in DOMAIN recvCOM[r] :
        /\ pc[r] = "computed"
        /\ recvCOM[r][i].fc # EmptyBag
        /\ recvCOM[r][i].id # RootId
        /\ SameCell(recvCOM[r][i], Submitted(NRanks - 1)[i])

\* C17 (slot metadata check at reduction), as claimed: when the reduction
\* loop has run to its end without stopping, the position, bmin, bmax and id
\* of every chunk's slot are those of the first chunk's slot.
C17_MetadataChecked ==
    \A r \in Ranks :
        pc[r] = "reduced" =>
            \A i \in 1..(NRanks - 1) : SameCell(recvcells[r][i + 1], recvcells[r][1])

\* C18 (C2P touches each body at most once per step): in one
\* mpi_gather_cells of a rank, the Taylor update of sink_traversal_c2p is
\* applied at most once to a body, so a body is pushed onto at most one
\* subparts list, and at most once; bodies of other ranks are not touched
\* by the rank.
C18_TouchedAtMostOnce ==
    \A b \in DOMAIN bodies :
        /\ touched[b] <= 1
        /\ pc[bodies[b].rank] \notin {"done", "failed_gather"} => touched[b] = 0

\* witness of C18: a rank has returned from a gather in which it descended
\* from two cells of its own, in a tree that also holds bodies of other ranks
C18_Witness ==
    \E r \in Ranks :
        /\ pc[r] = "done"
        /\ Len(vcells[r]) >= 2
        /\ ghosts
        /\ \E b \in DOMAIN bodies : bodies[b].rank # r
        /\ \A b \in DOMAIN bodies : bodies[b].rank = r => touched[b] = 1

\* the C2C term t of rank r comes from the branch id of r's tree or from a
\* branch or body below it
FromBranchOrBelow(t, r, id) ==
    /\ t.of.rank = r
    /\ \/ t.of.kind = "branch" /\ IsPrefix(id, t.of.id)
       \/ t.of.kind = "body" /\ InCell(id, bodies[t.of.id[1]].pos)

\* C19 (identity skip in C2C), as claimed: the sink that mpi_compute_fmm
\* builds for a catalog cell carries the id of the cell, and on the rank that
\* owns the cell the source branch with that id adds nothing to the tensors
\* of the cell, neither itself nor through anything below it.
C19_IdentitySkip ==
    \A r \in Ranks :
        pc[r] \in {"scattered", "computed", "gather", "done"} =>
            \A i \in DOMAIN recvCOM[r] :
                /\ SinkOf(recvCOM[r][i]).id = recvCOM[r][i].id
                /\ (SlotsBefore(r) < i /\ i <= SlotsBefore(r) + Len(vcells[r])) =>
                      \A t \in BagToSet(recvCOM[r][i].fc) :
                          ~FromBranchOrBelow(t, r, recvCOM[r][i].id)

\* T_ijk(r) = delta_ij r_k + delta_jk r_i + delta_ik r_j
Tijk(i, j, k, r) ==
    (IF i = j THEN r[k] ELSE 0) + (IF j = k THEN r[i] ELSE 0) + (IF i = k THEN r[j] ELSE 0)

\* C20 (Hessian coefficient), as claimed: for every index triple and every
\* diffPos, the first term that enters hessian[i*9 + j*3 + k] is T_ijk
\* itself when i = j = k and three times T_ijk when the indices are not all
\* equal.
C20_HessianCoefficient ==
    hcall.stage = "added" =>
        hcall.firstterm =
            IF hcall.i = hcall.j /\ hcall.j = hcall.k
            THEN Tijk(hcall.i, hcall.j, hcall.k, hcall.diffPos)
            ELSE 3 * Tijk(hcall.i, hcall.j, hcall.k, hcall.diffPos)

====
